---- MODULE Spec2Model ----
(***************************************************************************)
(* Simple3Formatter: format(value, mode) renders a number with three       *)
(* digits and an SI prefix, parse(text) reads such a text back.            *)
(*                                                                         *)
(* Numbers are decimal numbers [m |-> mantissa, e |-> exponent], standing  *)
(* for m * 10^e, and every arithmetic step of the code (division by        *)
(* 10**(3*exp3), round, floor, ceil, fixed-point rendering, float(), the   *)
(* multiplication by 10**exp) is computed exactly on them.  The binary64   *)
(* representation error of Python floats is not modelled: round() and the  *)
(* fixed-point rendering break ties to even, as they do on a value that is *)
(* held exactly, and scaled * factor is the exact product.                 *)
(*                                                                         *)
(* Texts are sequences of one-character strings; a unit symbol is such a   *)
(* sequence too ("" is << >>, "K" is <<"K">>).                             *)
(***************************************************************************)
EXTENDS Integers, Sequences, FiniteSets, TLC

VARIABLES impl, value, mode, text, pc, fmt, res

vars == <<impl, value, mode, text, pc, fmt, res>>

(***************************************************************************)
(* Bounds of the inputs.                                                   *)
(***************************************************************************)
\* floor(log10(|value|)) ranges over -MaxNegExp10 .. MaxPosExp10
MaxNegExp10 == 20
MaxPosExp10 == 23
\* mantissas 1 .. MaxLowMant (one to three digits, no rounding needed)
MaxLowMant == 125
\* four-digit mantissas 10000 - MaxHighMant .. 9999 (rounding reaches the next digit count)
MaxHighMant == 60
\* parse inputs: a body of at most MaxBody characters, then one last character
MaxBody == 3

(***************************************************************************)
(* Decimal arithmetic.                                                     *)
(***************************************************************************)
RECURSIVE Pow10(_)
Pow10(n) == IF n <= 0 THEN 1 ELSE 10 * Pow10(n - 1)

Abs(n) == IF n < 0 THEN -n ELSE n

RECURSIVE NumDigits(_)
NumDigits(n) == IF n < 10 THEN 1 ELSE 1 + NumDigits(n \div 10)

RECURSIVE StripZeros(_, _)
StripZeros(m, e) ==
    IF m = 0 THEN [m |-> 0, e |-> 0]
    ELSE IF m % 10 = 0 THEN StripZeros(m \div 10, e + 1)
    ELSE [m |-> m, e |-> e]

\* the canonical form of a decimal number: equal numbers have equal canonical forms
Norm(x) == StripZeros(x.m, x.e)

Dec(m, e) == [m |-> m, e |-> e]

DecAbs(x) == [m |-> Abs(x.m), e |-> x.e]

DecNeg(x) == [m |-> -x.m, e |-> x.e]

\* x * 10^k
DecShift(x, k) == [m |-> x.m, e |-> x.e + k]

\* int(math.floor(math.log10(x))) for x > 0
log10_floor(x) == NumDigits(Abs(x.m)) - 1 + x.e

\* truncation toward zero instead of floor
floor_scaled_trunc(x, digits) ==
    LET k == x.e + digits
    IN  IF k >= 0 THEN x.m * Pow10(k)
        ELSE IF x.m >= 0 THEN x.m \div Pow10(-k) ELSE -((-x.m) \div Pow10(-k))

\* math.floor(x * 10**digits) as an integer
floor_scaled(x, digits) ==
    LET k == x.e + digits
    IN  IF k >= 0 THEN x.m * Pow10(k) ELSE x.m \div Pow10(-k)

\* math.ceil(x * 10**digits) as an integer
ceil_scaled(x, digits) == -floor_scaled(DecNeg(x), digits)

\* round(x, digits) * 10**digits as an integer: to nearest, ties to even
round_scaled(x, digits) ==
    LET k  == x.e + digits
        d  == Pow10(-k)
        fl == x.m \div d
        r  == x.m - fl * d
    IN  IF k >= 0 THEN x.m * Pow10(k)
        ELSE IF 2 * r < d THEN fl
        ELSE IF 2 * r > d THEN fl + 1
        ELSE IF fl % 2 = 0 THEN fl ELSE fl + 1

(***************************************************************************)
(* The prefix tables.                                                      *)
(***************************************************************************)
UNITS_POS == << <<>>, <<"K">>, <<"M">>, <<"G">>, <<"T">>, <<"P">>, <<"E">> >>
UNITS_NEG == << <<>>, <<"m">>, <<"µ">>, <<"n">>, <<"p">>, <<"f">>, <<"a">> >>

Range(s) == {s[i] : i \in 1..Len(s)}

\* the 0-based index of u in table t
IndexOf(t, u) == CHOOSE i \in 0..(Len(t) - 1) : t[i + 1] = u

\* the descending table's exponents not negated
UNIT_TO_EXP_unsigned ==
    [u \in Range(UNITS_POS) \cup Range(UNITS_NEG) |->
        IF u \in Range(UNITS_NEG) THEN IndexOf(UNITS_NEG, u) * 3
        ELSE IndexOf(UNITS_POS, u) * 3]

\* UNIT_TO_EXP: the ascending table's entries, then updated by the descending table's
UNIT_TO_EXP ==
    [u \in Range(UNITS_POS) \cup Range(UNITS_NEG) |->
        IF u \in Range(UNITS_NEG) THEN -IndexOf(UNITS_NEG, u) * 3
        ELSE IndexOf(UNITS_POS, u) * 3]

Min(a, b) == IF a < b THEN a ELSE b
Max(a, b) == IF a > b THEN a ELSE b

\* <<clamped exp3, unit>>
_unit_from_exp3(exp3) ==
    IF exp3 >= 0
    THEN LET c == Min(exp3, Len(UNITS_POS) - 1) IN <<c, UNITS_POS[c + 1]>>
    ELSE LET lower == -(Len(UNITS_NEG) - 1)
             c == Max(exp3, lower)
         IN  <<c, UNITS_NEG[(-c) + 1]>>

\* the fractional digits that make three digits in total
_digits_for_three_total(scaled_abs) ==
    IF scaled_abs.m <= 0 THEN 2
    ELSE LET int_digits == log10_floor(scaled_abs) + 1
         IN  Max(3 - int_digits, 0)

(***************************************************************************)
(* Rendering.                                                              *)
(***************************************************************************)
DigitChars == <<"0", "1", "2", "3", "4", "5", "6", "7", "8", "9">>

RECURSIVE DigitsOf(_)
DigitsOf(n) ==
    IF n < 10 THEN <<DigitChars[n + 1]>>
    ELSE DigitsOf(n \div 10) \o <<DigitChars[(n % 10) + 1]>>

RECURSIVE ZeroPad(_, _)
ZeroPad(ds, width) == IF Len(ds) >= width THEN ds ELSE ZeroPad(<<"0">> \o ds, width)

\* the "," option of the format specification: groups of three from the right
RECURSIVE Grouped(_)
Grouped(ds) ==
    IF Len(ds) <= 3 THEN ds
    ELSE Grouped(SubSeq(ds, 1, Len(ds) - 3)) \o <<",">> \o SubSeq(ds, Len(ds) - 2, Len(ds))

\* f"{int(round(scaled)):,}"
format_int(scaled) ==
    LET n == round_scaled(scaled, 0)
    IN  (IF n < 0 THEN <<"-">> ELSE <<>>) \o Grouped(DigitsOf(Abs(n)))

\* f"{scaled:,.{frac_digits}f}"
format_fixed(scaled, frac_digits) ==
    LET n  == round_scaled(scaled, frac_digits)
        ds == ZeroPad(DigitsOf(Abs(n)), frac_digits + 1)
        ip == SubSeq(ds, 1, Len(ds) - frac_digits)
        fp == SubSeq(ds, Len(ds) - frac_digits + 1, Len(ds))
    IN  (IF scaled.m < 0 THEN <<"-">> ELSE <<>>) \o Grouped(ip) \o <<".">> \o fp

(***************************************************************************)
(* format                                                                  *)
(***************************************************************************)
ZeroText == <<"0", ".", "0", "0">>

MODES == {"round", "floor", "ceil"}

\* what a call returns before the value is scaled: a text or an error
Early(status, t) ==
    [status |-> status, path |-> "early", text |-> t]

\* rounding applied to the absolute value, the sign put back afterwards
_apply_rounding_abs(v, digits, m) ==
    LET a == DecAbs(v)
        q == IF m = "round" THEN round_scaled(a, digits)
             ELSE IF m = "floor" THEN floor_scaled(a, digits)
             ELSE ceil_scaled(a, digits)
    IN  Dec(IF v.m < 0 THEN -q ELSE q, -digits)

\* the rounding step: the scaled mantissa at frac_digits decimal places
_apply_rounding(v, digits, m) ==
    IF m = "round" THEN Dec(round_scaled(v, digits), -digits)
    ELSE IF m = "floor" THEN Dec(floor_scaled(v, digits), -digits)
    ELSE Dec(ceil_scaled(v, digits), -digits)

\* abs(scaled) > 1000
carry_needed_strict(scaled) ==
    /\ scaled.m # 0
    /\ log10_floor(scaled) >= 3
    /\ Norm(DecAbs(scaled)) # Dec(1, 3)

\* abs(scaled) >= 1000
carry_needed(scaled) == scaled.m # 0 /\ log10_floor(scaled) >= 3

\* abs_val < 1e-300
below_guard(abs_val) == log10_floor(abs_val) < -300

\* format from abs_val on: the locals of the call and the text it returns
format_scaled(v, m) ==
    LET abs_val      == DecAbs(v)
        exp3_guess   == log10_floor(abs_val) \div 3
        ue0          == _unit_from_exp3(exp3_guess)
        exp3_0       == ue0[1]
        scaled_0     == DecShift(v, -(3 * exp3_0))
        frac_0       == _digits_for_three_total(DecAbs(scaled_0))
        rounded      == _apply_rounding(scaled_0, frac_0, m)
        carry        == carry_needed(rounded)
        ue1          == IF carry THEN _unit_from_exp3(exp3_0 + 1) ELSE ue0
        scaled       == IF carry THEN DecShift(rounded, -3) ELSE rounded
        frac_digits  == IF carry THEN _digits_for_three_total(DecAbs(scaled)) ELSE frac_0
        out          == IF frac_digits = 0 THEN format_int(scaled) \o ue1[2]
                        ELSE format_fixed(scaled, frac_digits) \o ue1[2]
    IN  IF below_guard(abs_val) THEN Early("ok", ZeroText)
        ELSE [status |-> "ok", path |-> "scaled", text |-> out,
              exp3_guess |-> exp3_guess, exp3_0 |-> exp3_0, scaled_0 |-> scaled_0,
              frac_0 |-> frac_0, rounded |-> rounded, carry |-> carry,
              exp3 |-> ue1[1], unit |-> ue1[2], scaled |-> scaled,
              frac_digits |-> frac_digits]

\* simple3_formatter.Simple3Formatter.format
format(v, m) ==
    IF v.m = 0 THEN Early("ok", ZeroText)
    ELSE IF m \notin MODES THEN Early("ValueError", <<>>)
    ELSE format_scaled(v, m)

\* s3fmt.core.Simple3Formatter.format
s3fmt_format(v, m) ==
    IF m \notin MODES THEN Early("ValueError", <<>>)
    ELSE IF v.m = 0 THEN Early("ok", ZeroText)
    ELSE format_scaled(v, m)

(***************************************************************************)
(* parse                                                                   *)
(***************************************************************************)
IsSpace(c) == c = " "

\* str.strip(): surrounding whitespace removed
RECURSIVE strip(_)
strip(s) ==
    IF s = <<>> THEN s
    ELSE IF IsSpace(s[1]) THEN strip(Tail(s))
    ELSE IF IsSpace(s[Len(s)]) THEN strip(SubSeq(s, 1, Len(s) - 1))
    ELSE s

\* s.endswith(u)
endswith(s, u) ==
    Len(s) >= Len(u) /\ SubSeq(s, Len(s) - Len(u) + 1, Len(s)) = u

IsNewKey(u) == u \notin Range(UNITS_POS)

\* UNIT_TO_EXP.keys(), in insertion order
unit_keys == UNITS_POS \o SelectSeq(UNITS_NEG, IsNewKey)

RECURSIVE by_len_desc(_, _)
by_len_desc(keys, n) ==
    LET HasLen(u) == Len(u) = n
    IN  IF n < 0 THEN <<>> ELSE SelectSeq(keys, HasLen) \o by_len_desc(keys, n - 1)

\* sorted(UNIT_TO_EXP.keys(), key=len, reverse=True): stable, longest first
unit_candidates ==
    LET lens    == {Len(unit_keys[i]) : i \in 1..Len(unit_keys)}
        longest == CHOOSE n \in lens : \A k \in lens : k <= n
    IN  by_len_desc(unit_keys, longest)

IsDigit(c) == c \in Range(DigitChars)

DigitVal(c) == CHOOSE i \in 0..9 : DigitChars[i + 1] = c

RECURSIVE IntOf(_)
IntOf(ds) ==
    IF ds = <<>> THEN 0
    ELSE 10 * IntOf(SubSeq(ds, 1, Len(ds) - 1)) + DigitVal(ds[Len(ds)])

IsSeparator(c) == c \in {",", "_"}

NotSeparator(c) == ~IsSeparator(c)

\* .replace(",", "").replace("_", "")
remove_separators(s) == SelectSeq(s, NotSeparator)

Invalid == [invalid |-> TRUE]

\* float(num_str) on texts of digits, ".", a sign and whitespace: the number,
\* or Invalid where float() raises ValueError
float_of(num_str) ==
    LET t      == strip(num_str)
        signed == t # <<>> /\ t[1] \in {"+", "-"}
        body   == IF signed THEN Tail(t) ELSE t
        IsDot(c) == c = "."
        dots   == SelectSeq(body, IsDot)
        digs   == SelectSeq(body, IsDigit)
        dotAt  == CHOOSE i \in 1..Len(body) : body[i] = "."
        nfrac  == IF dots = <<>> THEN 0 ELSE Len(body) - dotAt
        n      == IntOf(digs)
    IN  IF /\ Len(digs) >= 1
           /\ Len(dots) <= 1
           /\ Len(digs) + Len(dots) = Len(body)
        THEN Dec(IF signed /\ t[1] = "-" THEN -n ELSE n, -nfrac)
        ELSE Invalid

\* the empty unit accepted as well
matching_units_any(s) ==
    LET Matches(u) == endswith(s, u)
    IN  SelectSeq(unit_candidates, Matches)

\* the candidate units the loop accepts, in the order it tries them
matching_units(s) ==
    LET Matches(u) == u # <<>> /\ endswith(s, u)
    IN  SelectSeq(unit_candidates, Matches)

\* a unit whose remainder is no number is skipped, the loop goes on
parse_skipping(value_str) ==
    LET s       == strip(value_str)
        Good(u) == float_of(remove_separators(SubSeq(s, 1, Len(s) - Len(u)))) # Invalid
        hits    == SelectSeq(matching_units(s), Good)
        unit    == Head(hits)
        num     == float_of(remove_separators(SubSeq(s, 1, Len(s) - Len(unit))))
    IN  IF hits = <<>> THEN [status |-> "MissingUnit", arg |-> value_str]
        ELSE [status |-> "ok", val |-> Norm(DecShift(num, UNIT_TO_EXP[unit]))]

\* Simple3Formatter.parse(value_str): the first matching unit decides
parse(value_str) ==
    LET s       == strip(value_str)
        hits    == matching_units(s)
        unit    == Head(hits)
        num_str == remove_separators(SubSeq(s, 1, Len(s) - Len(unit)))
        num     == float_of(num_str)
    IN  IF hits = <<>> THEN [status |-> "MissingUnit", arg |-> value_str]
        ELSE IF num = Invalid THEN [status |-> "InvalidNumber", arg |-> num_str]
        ELSE [status |-> "ok", val |-> Norm(DecShift(num, UNIT_TO_EXP[unit]))]

(***************************************************************************)
(* The calls: a value is formatted and the text parsed back (Spec), or a   *)
(* text is parsed (ParseSpec).                                             *)
(***************************************************************************)
None == [status |-> "none"]

NoValue == Dec(0, 0)

IMPLS == {"simple3_formatter", "s3fmt"}

TestedModes == MODES \cup {"trunc"}

ExtraMants == {1005, 1015, 1234, 1235, 1245, 5005, 5015, 9876, 11111, 11119, 123456, 999999}

Mantissas == (1..MaxLowMant) \cup ((10000 - MaxHighMant)..9999) \cup ExtraMants

Values ==
    {Dec(0, 0)} \cup
    {Norm(Dec(sgn * d, l - (NumDigits(d) - 1))) :
        sgn \in {1, -1}, d \in Mantissas, l \in (-MaxNegExp10)..MaxPosExp10}

Init ==
    /\ impl \in IMPLS
    /\ value \in Values
    /\ mode \in TestedModes
    /\ text = <<>>
    /\ pc = "start"
    /\ fmt = None
    /\ res = None

Format ==
    /\ pc = "start"
    /\ fmt' = IF impl = "simple3_formatter" THEN format(value, mode)
              ELSE s3fmt_format(value, mode)
    /\ text' = fmt'.text
    /\ pc' = IF fmt'.status = "ok" THEN "formatted" ELSE "raised"
    /\ UNCHANGED <<impl, value, mode, res>>

Parse ==
    /\ pc \in {"formatted", "text"}
    /\ res' = parse(text)
    /\ pc' = "parsed"
    /\ UNCHANGED <<impl, value, mode, text, fmt>>

Next == Format \/ Parse

Spec == Init /\ [][Next]_vars

BodyChars == {"1", "5", ".", "-", ",", "_", " ", "M", "k"}

LastChars == Range(UNITS_POS) \cup Range(UNITS_NEG) \cup {<<"k">>, <<"X">>, <<"1">>, <<" ">>, <<"K", " ">>}

Bodies == UNION {[1..n -> BodyChars] : n \in 0..MaxBody}

Texts == {b \o l : b \in Bodies, l \in LastChars}

InitParse ==
    /\ impl = "simple3_formatter"
    /\ value = NoValue
    /\ mode = "round"
    /\ text \in Texts
    /\ pc = "text"
    /\ fmt = None
    /\ res = None

NextParse == Parse

ParseSpec == InitParse /\ [][NextParse]_vars

(***************************************************************************)
(* Reading a formatted text, for the properties below.                     *)
(***************************************************************************)
Symbols == {"K", "M", "G", "T", "P", "E", "m", "µ", "n", "p", "f", "a"}

\* the symbol a text ends with, or "" when it ends with none
TextSymbol(t) == IF t # <<>> /\ t[Len(t)] \in Symbols THEN t[Len(t)] ELSE ""

\* the magnitude step a symbol stands for: its index in its table, negative
\* for the descending table, 0 for no symbol
StepOf(sym) ==
    IF sym = "" THEN 0
    ELSE IF \E i \in 1..Len(UNITS_POS) : UNITS_POS[i] = <<sym>>
         THEN (CHOOSE i \in 1..Len(UNITS_POS) : UNITS_POS[i] = <<sym>>) - 1
         ELSE 1 - (CHOOSE i \in 1..Len(UNITS_NEG) : UNITS_NEG[i] = <<sym>>)

DigitPositions(t) == {i \in 1..Len(t) : t[i] \in Range(DigitChars)}

DotPositions(t) == {i \in 1..Len(t) : t[i] = "."}

\* digits in total, before the decimal point, and after it
TextDigits(t) == Cardinality(DigitPositions(t))

TextIntDigits(t) ==
    Cardinality({i \in DigitPositions(t) : \A j \in DotPositions(t) : i < j})

TextFracDigits(t) == TextDigits(t) - TextIntDigits(t)

\* the mantissa a text shows, as a decimal number
TextMantissa(t) ==
    LET n == IntOf(SelectSeq(t, IsDigit))
    IN  Dec(IF t # <<>> /\ t[1] = "-" THEN -n ELSE n, -TextFracDigits(t))

\* the number a formatted text denotes
Denoted(t) == Norm(DecShift(TextMantissa(t), 3 * StepOf(TextSymbol(t))))

\* x - y, as an integer count of units 10^e, e the smaller exponent
DiffUnits(x, y) ==
    LET e == Min(x.e, y.e)
    IN  x.m * Pow10(x.e - e) - y.m * Pow10(y.e - e)

\* |x - v| is at most half a unit of the third significant digit of v
WithinHalfUnit(x, v) ==
    LET g == (log10_floor(v) - 2) - Min(x.e, v.e)
    IN  IF g >= 0 THEN 2 * Abs(DiffUnits(x, v)) <= Pow10(g)
        ELSE DiffUnits(x, v) = 0

\* |x| < 10^k
DecBelowPow10(x, k) == x.m = 0 \/ log10_floor(x) < k

\* format has scaled, rounded and rendered the value
Scaled == pc # "start" /\ fmt.status = "ok" /\ fmt.path = "scaled"

\* 10^-18 <= |value| < 10^21: no clamping at a table boundary
Representable == value.m # 0 /\ log10_floor(value) >= -18 /\ log10_floor(value) < 21

FormatOf(i, v, m) == IF i = "simple3_formatter" THEN format(v, m) ELSE s3fmt_format(v, m)

(***************************************************************************)
(* Properties of format.                                                   *)
(***************************************************************************)
\* C1: for every representable nonzero value and every mode the text holds
\* exactly 3 digits, and no fractional part when the integer part has 3.
C1_ThreeDigitRule ==
    (Scaled /\ Representable) =>
        /\ TextDigits(text) = 3
        /\ (TextIntDigits(text) = 3 => DotPositions(text) = {})

\* C2: for every representable value, parse(format(value)) succeeds and is
\* within half a unit of the third significant digit of value.
C2_RoundTrip ==
    (pc = "parsed" /\ Scaled /\ Representable /\ mode = "round") =>
        /\ res.status = "ok"
        /\ WithinHalfUnit(res.val, value)

\* C3: format(0, mode) is "0.00" for every mode argument, in both
\* implementations: a zero value never raises.
C3_ZeroAlways ==
    (pc # "start" /\ value.m = 0) => (fmt.status = "ok" /\ text = ZeroText)

C6_CarryUp ==
    (Scaled /\ DecBelowPow10(value, 21)) =>
        /\ DecBelowPow10(TextMantissa(text), 3)
        /\ DecBelowPow10(fmt.scaled, 3)
        /\ (fmt.carry /\ fmt.exp3_0 < 6) =>
              /\ StepOf(TextSymbol(text)) = fmt.exp3_0 + 1
              /\ Norm(DecShift(TextMantissa(text), 3)) = Norm(fmt.rounded)
              /\ TextFracDigits(text) = Max(3 - TextIntDigits(text), 0)
              /\ TextDigits(text) = 3

C6_Witness ==
    /\ Scaled /\ fmt.carry /\ fmt.exp3_0 = 1 /\ mode = "round"
    /\ text = <<"1", ".", "0", "0", "M">>

C10_DenotesRounded ==
    Scaled =>
        /\ Denoted(text) = Norm(DecShift(fmt.rounded, 3 * fmt.exp3_0))
        /\ fmt.carry => StepOf(TextSymbol(text)) = fmt.exp3_0 + 1

(***************************************************************************)
(* Properties of parse.                                                    *)
(***************************************************************************)
NonSpace(t) == {i \in 1..Len(t) : t[i] # " "}

\* a text without its surrounding blanks
Trimmed(t) ==
    IF NonSpace(t) = {} THEN <<>>
    ELSE LET lo == CHOOSE i \in NonSpace(t) : \A j \in NonSpace(t) : i <= j
             hi == CHOOSE i \in NonSpace(t) : \A j \in NonSpace(t) : j <= i
         IN  [i \in 1..(hi - lo + 1) |-> t[lo + i - 1]]

EndsWithSymbol(t) == TextSymbol(Trimmed(t)) # ""

\* the trimmed text without its last character and without "," and "_"
Remainder(t) ==
    LET u == Trimmed(t)
        Keep(c) == c # "," /\ c # "_"
    IN  SelectSeq([i \in 1..(Len(u) - 1) |-> u[i]], Keep)

\* a numeral: an optional sign, then digits with at most one "." among them
IsNumeral(r) ==
    LET u == Trimmed(r)
        b == IF u # <<>> /\ u[1] \in {"+", "-"} THEN Tail(u) ELSE u
    IN  /\ DigitPositions(b) # {}
        /\ Cardinality(DotPositions(b)) <= 1
        /\ DigitPositions(b) \cup DotPositions(b) = 1..Len(b)

\* C4: parse fails with MissingUnit exactly when the trimmed text does not
\* end with one of the 12 symbols; no case folding, no empty symbol.
C4_MissingUnitIff ==
    pc = "parsed" => (res.status = "MissingUnit" <=> ~EndsWithSymbol(text))

C4_Witness ==
    /\ pc = "parsed" /\ res.status = "MissingUnit"
    /\ text = <<"1", ".", "5", "k">>

\* C8: a numeral N followed by the symbol of step i parses to
\* number(N without "," and "_") * 10^(3*i); separators do not change the
\* result and exactly one symbol matches.
C8_ParseScaling ==
    (pc = "parsed" /\ EndsWithSymbol(text) /\ IsNumeral(Remainder(text))) =>
        /\ res.status = "ok"
        /\ res.val = Norm(DecShift(TextMantissa(Trimmed(Remainder(text))),
                                   3 * StepOf(TextSymbol(Trimmed(text)))))
        /\ res = parse(Remainder(text) \o <<TextSymbol(Trimmed(text))>>)
        /\ Len(matching_units(Trimmed(text))) = 1

C8_Witness ==
    /\ pc = "parsed" /\ text = <<"1", ",", "5", "µ">>
    /\ res = [status |-> "ok", val |-> Dec(15, -6)]

\* C9: when the trimmed text ends with a symbol and the remainder is not a
\* number, parse fails with InvalidNumber carrying the remainder.
C9_InvalidNumberFirst ==
    (pc = "parsed" /\ EndsWithSymbol(text) /\ ~IsNumeral(Remainder(text))) =>
        res = [status |-> "InvalidNumber", arg |-> Remainder(text)]

C9_Witness ==
    /\ pc = "parsed" /\ text = <<"1", "_", "M", "m">>
    /\ res = [status |-> "InvalidNumber", arg |-> <<"1", "M">>]

====
